---- MODULE Spec2Model ----
(***************************************************************************)
(* github-telegram-notifier: the poll loop of                              *)
(* src/app/github-telegram-notifier.py as a state machine.                 *)
(*                                                                         *)
(* One process runs run(): fetch -> filter -> load -> select -> send each  *)
(* new item -> save -> sleep.  An exception that escapes main() ends the   *)
(* process; the environment may kill it at any step and a supervisor       *)
(* starts it again.  The state file survives the process.                  *)
(***************************************************************************)
EXTENDS Integers, Sequences, FiniteSets, TLC

\* Longest list the source answers with.
MaxLen == 2
\* Number of times the environment kills the process.
MaxCrashes == 1

Range(s) == {s[k] : k \in 1..Len(s)}

(***************************************************************************)
(* Data: the items of the source's answer.                                 *)
(***************************************************************************)

\* An "id" of the JSON answer is a number or a string; text is its decimal
\* or literal spelling.
RawIds ==
    { [kind |-> "int", text |-> "42"],
      [kind |-> "str", text |-> "42"],
      [kind |-> "str", text |-> "7"] }

\* str(n["id"]): a number and a string of the same spelling coerce alike.
str(id) == id.text

IdStrings == {str(r) : r \in RawIds}

TitleOf == ("42" :> "Fix bug") @@ ("7" :> "Add docs")
FullNameOf == ("42" :> "org/repo") @@ ("7" :> "org/lib")

\* The "unread" key: present and true, present and false, or absent.
UnreadFlags ==
    { [has_unread |-> TRUE, unread |-> TRUE],
      [has_unread |-> TRUE, unread |-> FALSE],
      [has_unread |-> FALSE, unread |-> FALSE] }

Item(r, u) ==
    [id |-> r, has_unread |-> u.has_unread, unread |-> u.unread,
     title |-> TitleOf[str(r)], full_name |-> FullNameOf[str(r)]]

\* The items the source may list: every identifier unread, one identifier
\* also as a read item, one also as an item without the flag.
Items ==
    {Item(r, [has_unread |-> TRUE, unread |-> TRUE]) : r \in RawIds}
    \cup {Item([kind |-> "str", text |-> "7"], [has_unread |-> TRUE, unread |-> FALSE]),
          Item([kind |-> "str", text |-> "42"], [has_unread |-> FALSE, unread |-> FALSE])}

Lists == UNION {[1..k -> Items] : k \in 0..MaxLen}

\* A value that may be Python's None.
None == [none |-> TRUE, val |-> <<>>]
Some(v) == [none |-> FALSE, val |-> v]

\* The HTTP answers of the source.
Responses ==
    {[status |-> 200, json |-> L] : L \in Lists} \cup {[status |-> 500, json |-> <<>>]}

(***************************************************************************)
(* The state file.                                                         *)
(***************************************************************************)
Missing == [state |-> "missing", data |-> <<>>]
\* open(..., "w") has truncated the file and the dump has not completed:
\* an empty or cut-off text, which json.load rejects.
Truncated == [state |-> "truncated", data |-> <<>>]
Json(data) == [state |-> "json", data |-> data]

\* list(notifications): the elements of the set once each, in any order.
Orderings(S) == {f \in [1..Cardinality(S) -> S] : Range(f) = S}

\* The identifiers a reader finds in the file.
FileIds(f) == IF f.state = "json" THEN Range(f.data) ELSE {}

(***************************************************************************)
(* The functions of the program.                                           *)
(***************************************************************************)

\* fetch_notifications: the body on status 200; otherwise the function logs
\* and falls off its end, which returns None.
fetch_notifications(response) ==
    IF response.status = 200 THEN Some(response.json) ELSE None

\* A filter that asks only whether the key is present.
get_unread_notifications_KeyOnly(notifications) ==
    SelectSeq(notifications, LAMBDA n : n.has_unread)

\* get_unread_notifications, for an argument that is a list.
get_unread_notifications(notifications) ==
    SelectSeq(notifications, LAMBDA n : n.has_unread /\ n.unread)

\* A reader that skips the first entry of the array.
load_notifications_SkipFirst(f) ==
    IF f.state = "json" /\ f.data # <<>> THEN Range(Tail(f.data)) ELSE {}

\* load_notifications, for a file that is absent or parses.
load_notifications(f) ==
    IF f.state = "json" THEN Range(f.data) ELSE {}

\* A dump that leaves out one element of the set.
save_notifications_DropsOne(s) ==
    {Json(IF d = <<>> THEN d ELSE Tail(d)) : d \in Orderings(s)}

\* save_notifications, second half: what json.dump(list(s), f) may write.
save_notifications(s) == {Json(d) : d \in Orderings(s)}

\* A selection that forgets the notified set.
select_new_All(unread_notifications, sent) == unread_notifications

\* main, lines 82-84.
select_new(unread_notifications, sent) ==
    SelectSeq(unread_notifications, LAMBDA n : str(n.id) \notin sent)

\* The two fields in the other order.
Message_Swapped(n) == n.full_name \o " (" \o n.title \o ")"

\* main, line 86.
Message(n) == n.title \o " (" \o n.full_name \o ")"

(***************************************************************************)
(* State.                                                                  *)
(***************************************************************************)
VARIABLES
    pc,                 \* where the process is
    raised,             \* what ended the process: an exception's name, or "killed"
    file,               \* NOTIFICATIONS_FILE
    status,             \* response.status of the cycle's fetch
    notifications,      \* main: notifications
    new_notifications,  \* main: new_notifications
    idx,                \* main: position of the for loop in new_notifications
    sent_notifications, \* main: sent_notifications
    before,             \* history: the identifiers in the file when this cycle read it
    cycleSent,          \* history: the messages sent in this cycle, with their items
    lastList,           \* history: between two cycles, the list the cycle before got
    repeat,             \* history: this cycle got the list the preceding one got
    sentCount,          \* history: messages sent per identifier by this process
    failedIds,          \* history: identifiers whose delivery failed in this process
    startIds,           \* history: identifiers in the file when the process started
    crashes,            \* number of kills and signals so far
    exitCode,           \* the exit status of the process, -1 while it runs
    config,             \* the required settings present in the environment
    dirExists,          \* NOTIFICATIONS_DIRECTORY exists
    activity,           \* history: what this process has touched: "file", "net"
    lost,               \* history: identifiers the process before delivered, not persisted
    watching,           \* the watched item has appeared at the source and stays unread
    watched,            \* an item of the source
    watchedDelivered    \* the watched item was delivered since it appeared

vars ==
    << pc, raised, file, status, notifications, new_notifications, idx,
       sent_notifications, before, cycleSent, lastList, repeat, sentCount,
       failedIds, startIds, crashes, exitCode, config, dirExists, activity, lost,
       watching, watched, watchedDelivered >>

locals == << notifications, new_notifications, idx, sent_notifications >>
watch == << watching, watched, watchedDelivered >>
setup == << config, dirExists >>

\* GH_TOKEN, TELEGRAM_TOKEN, TELEGRAM_CHAT_ID: lines 11-19.
Settings == {"GH_TOKEN", "TELEGRAM_TOKEN", "TELEGRAM_CHAT_ID"}

UnreadItems == {n \in Items : n.has_unread /\ n.unread}

InitFiles == {Missing} \cup UNION {save_notifications(s) : s \in SUBSET IdStrings}

\* A new process at step p over the state file f, with settings c.
Process(p, f, c, d) ==
    /\ pc = p
    /\ raised = "none"
    /\ exitCode = -1
    /\ config = c
    /\ dirExists = d
    /\ activity = {}
    /\ lost = {}
    /\ file = f
    /\ status = 200
    /\ notifications = None
    /\ new_notifications = <<>>
    /\ idx = 1
    /\ sent_notifications = {}
    /\ before = {}
    /\ cycleSent = <<>>
    /\ lastList = None
    /\ repeat = FALSE
    /\ sentCount = [i \in IdStrings |-> 0]
    /\ failedIds = {}
    /\ startIds = FileIds(file)
    /\ crashes = 0
    /\ watching = FALSE
    /\ watched = CHOOSE n \in UnreadItems : TRUE
    /\ watchedDelivered = FALSE

\* The process has started over the state file f.
Boot(f) == Process("fetch", f, Settings, TRUE)

\* The script is launched; a state file lies in a directory that exists.
Init ==
    \E f \in InitFiles, c \in SUBSET Settings, d \in BOOLEAN :
        /\ f # Missing => d
        /\ Process("start", f, c, d)

(***************************************************************************)
(* Steps of the process.                                                   *)
(***************************************************************************)

\* An except clause that logs and does not raise again.
exit_code_Swallowed(e) == 0

\* Lines 100-116: sys.exit(0) in the signal handler and a caught
\* KeyboardInterrupt end the process with status 0; any other exception is
\* raised again (or was never caught) and the interpreter exits with 1.
exit_code(e) == IF e \in {"SystemExit", "KeyboardInterrupt"} THEN 0 ELSE 1

\* An exception leaves main(), run() and asyncio.run(); the handler at the
\* bottom of the script logs it and raises it again: the process ends.
Raise(e) ==
    /\ pc' = "dead"
    /\ raised' = e
    /\ exitCode' = exit_code(e)

\* main, line 79: one request to the source.  While the watched item stays unread, every answer with
\* status 200 lists it.
Fetch(response) ==
    /\ pc = "fetch"
    /\ (watching /\ response.status = 200) => watched \in Range(response.json)
    /\ status' = response.status
    /\ notifications' = fetch_notifications(response)
    /\ repeat' = (response.status = 200 /\ lastList = Some(response.json))
    /\ lastList' = None
    /\ pc' = "select"
    /\ activity' = activity \cup {"net"}
    /\ UNCHANGED << raised, exitCode, file, new_notifications, idx, sent_notifications,
                    before, cycleSent, sentCount, failedIds, startIds, crashes, watch,
                    setup, lost >>

FetchOk == \E response \in Responses : response.status = 200 /\ Fetch(response)

\* A load that takes a file it cannot parse for an empty set.
Select_ResetOnCorrupt ==
    /\ pc = "select"
    /\ IF notifications.none
       THEN /\ Raise("TypeError")
            /\ UNCHANGED << new_notifications, idx, sent_notifications, before,
                            activity >>
       ELSE LET unread_notifications == get_unread_notifications(notifications.val)
                sent == load_notifications(file)
                new == select_new(unread_notifications, sent)
            IN /\ sent_notifications' = sent
               /\ before' = FileIds(file)
               /\ new_notifications' = new
               /\ idx' = 1
               /\ pc' = IF new = <<>> THEN "save" ELSE "send"
               /\ activity' = activity \cup {"file"}
               /\ UNCHANGED << raised, exitCode >>
    /\ UNCHANGED << file, status, notifications, cycleSent, lastList, repeat, sentCount,
                    failedIds, startIds, crashes, watch, setup, lost >>

\* A load without the os.path.isfile test: opening an absent file raises.
Select_NoIsfile ==
    /\ pc = "select"
    /\ IF notifications.none
       THEN /\ Raise("TypeError")
            /\ UNCHANGED << new_notifications, idx, sent_notifications, before,
                            activity >>
       ELSE IF file.state = "missing"
       THEN /\ Raise("FileNotFoundError")
            /\ activity' = activity \cup {"file"}
            /\ UNCHANGED << new_notifications, idx, sent_notifications, before >>
       ELSE IF file.state = "truncated"
       THEN /\ Raise("JSONDecodeError")
            /\ activity' = activity \cup {"file"}
            /\ UNCHANGED << new_notifications, idx, sent_notifications, before >>
       ELSE LET unread_notifications == get_unread_notifications(notifications.val)
                sent == load_notifications(file)
                new == select_new(unread_notifications, sent)
            IN /\ sent_notifications' = sent
               /\ before' = FileIds(file)
               /\ new_notifications' = new
               /\ idx' = 1
               /\ pc' = IF new = <<>> THEN "save" ELSE "send"
               /\ activity' = activity \cup {"file"}
               /\ UNCHANGED << raised, exitCode >>
    /\ UNCHANGED << file, status, notifications, cycleSent, lastList, repeat, sentCount,
                    failedIds, startIds, crashes, watch, setup, lost >>

\* main, lines 80-84: filter the unread items, load the notified set, select
\* the new items.  Iterating over None raises TypeError; json.load of a file
\* that does not parse raises JSONDecodeError.
Select ==
    /\ pc = "select"
    /\ IF notifications.none
       THEN /\ Raise("TypeError")
            /\ UNCHANGED << new_notifications, idx, sent_notifications, before,
                            activity >>
       ELSE IF file.state = "truncated"
       THEN /\ Raise("JSONDecodeError")
            /\ activity' = activity \cup {"file"}
            /\ UNCHANGED << new_notifications, idx, sent_notifications, before >>
       ELSE LET unread_notifications == get_unread_notifications(notifications.val)
                sent == load_notifications(file)
                new == select_new(unread_notifications, sent)
            IN /\ sent_notifications' = sent
               /\ before' = FileIds(file)
               /\ new_notifications' = new
               /\ idx' = 1
               /\ pc' = IF new = <<>> THEN "save" ELSE "send"
               /\ activity' = activity \cup {"file"}
               /\ UNCHANGED << raised, exitCode >>
    /\ UNCHANGED << file, status, notifications, cycleSent, lastList, repeat, sentCount,
                    failedIds, startIds, crashes, watch, setup, lost >>

\* A loop that writes the state file after every delivery.
SendOk_Persisting(n) ==
    /\ pc = "send"
    /\ n = new_notifications[idx]
    /\ cycleSent' = Append(cycleSent, [item |-> n, text |-> Message(n)])
    /\ sent_notifications' = sent_notifications \cup {str(n.id)}
    /\ file' \in save_notifications(sent_notifications \cup {str(n.id)})
    /\ sentCount' = [sentCount EXCEPT ![str(n.id)] = @ + 1]
    /\ watchedDelivered' = (watchedDelivered \/ (watching /\ str(n.id) = str(watched.id)))
    /\ idx' = idx + 1
    /\ pc' = IF idx = Len(new_notifications) THEN "save" ELSE "send"
    /\ UNCHANGED << raised, exitCode, status, notifications, new_notifications,
                    before, lastList, repeat, failedIds, startIds, crashes, watching,
                    watched, setup, activity, lost >>

\* main, lines 86-89, when send_telegram_message returns: the message is out
\* and the identifier is recorded.
SendOk(n) ==
    /\ pc = "send"
    /\ n = new_notifications[idx]
    /\ cycleSent' = Append(cycleSent, [item |-> n, text |-> Message(n)])
    /\ sent_notifications' = sent_notifications \cup {str(n.id)}
    /\ sentCount' = [sentCount EXCEPT ![str(n.id)] = @ + 1]
    /\ watchedDelivered' = (watchedDelivered \/ (watching /\ str(n.id) = str(watched.id)))
    /\ idx' = idx + 1
    /\ pc' = IF idx = Len(new_notifications) THEN "save" ELSE "send"
    /\ UNCHANGED << raised, exitCode, file, status, notifications, new_notifications,
                    before, lastList, repeat, failedIds, startIds, crashes, watching,
                    watched, setup, activity, lost >>

\* A loop that records the identifier before it knows the call returned.
SendFail_Recorded ==
    /\ pc = "send"
    /\ failedIds' = failedIds \cup {str(new_notifications[idx].id)}
    /\ sent_notifications' = sent_notifications \cup {str(new_notifications[idx].id)}
    /\ Raise("DeliveryError")
    /\ UNCHANGED << file, status, notifications, new_notifications, idx, before,
                    cycleSent, lastList, repeat, sentCount, startIds, crashes, watch,
                    setup, activity, lost >>

\* main, line 88, when send_telegram_message raises: nothing in main catches
\* it, so lines 89-90 are not reached.
SendFail ==
    /\ pc = "send"
    /\ failedIds' = failedIds \cup {str(new_notifications[idx].id)}
    /\ Raise("DeliveryError")
    /\ UNCHANGED << file, status, locals, before, cycleSent, lastList, repeat, sentCount,
                    startIds, crashes, watch, setup, activity, lost >>

\* save_notifications, line 66: open(..., "w") creates or truncates the file.
SaveOpen ==
    /\ pc = "save"
    /\ file' = Truncated
    /\ pc' = "dump"
    /\ UNCHANGED << raised, exitCode, status, locals, before, cycleSent, lastList,
                    repeat, sentCount, failedIds, startIds, crashes, watch, setup,
                    activity, lost >>

\* A save that writes the identifiers of this cycle alone.
SaveDump_OnlyNew ==
    /\ pc = "dump"
    /\ file' \in save_notifications({str(cycleSent[k].item.id) : k \in 1..Len(cycleSent)})
    /\ pc' = "sleep"
    /\ UNCHANGED << raised, exitCode, status, locals, before, cycleSent, lastList,
                    repeat, sentCount, failedIds, startIds, crashes, watch, setup,
                    activity, lost >>

\* save_notifications, line 67 and the end of the with block: the text is
\* written and the file closed.
SaveDump ==
    /\ pc = "dump"
    /\ file' \in save_notifications(sent_notifications)
    /\ pc' = "sleep"
    /\ UNCHANGED << raised, exitCode, status, locals, before, cycleSent, lastList,
                    repeat, sentCount, failedIds, startIds, crashes, watch, setup,
                    activity, lost >>

\* run, line 97, and back to the top of the loop: main has returned and its
\* names are gone.
Sleep ==
    /\ pc = "sleep"
    /\ pc' = "fetch"
    /\ lastList' = notifications
    /\ notifications' = None
    /\ new_notifications' = <<>>
    /\ idx' = 1
    /\ sent_notifications' = {}
    /\ before' = {}
    /\ cycleSent' = <<>>
    /\ repeat' = FALSE
    /\ UNCHANGED << raised, exitCode, file, status, sentCount, failedIds, startIds,
                    crashes, watch, setup, activity, lost >>

\* The environment kills the process (SIGKILL, power loss) at any step.
Crash ==
    /\ pc # "dead"
    /\ crashes < MaxCrashes
    /\ crashes' = crashes + 1
    /\ pc' = "dead"
    /\ raised' = "killed"
    /\ exitCode' = 137
    /\ UNCHANGED << file, status, locals, before, cycleSent, lastList, repeat, sentCount,
                    failedIds, startIds, watch, setup, activity, lost >>

\* SIGTERM reaches the running process: handle_sigterm calls sys.exit(0) and
\* SystemExit leaves whatever was running; a with block on its way closes
\* its file as it is.
SigTerm ==
    /\ pc \notin {"start", "dead"}
    /\ crashes < MaxCrashes
    /\ crashes' = crashes + 1
    /\ Raise("SystemExit")
    /\ UNCHANGED << file, status, locals, before, cycleSent, lastList, repeat, sentCount,
                    failedIds, startIds, watch, setup, activity, lost >>

\* Ctrl-C: KeyboardInterrupt leaves asyncio.run and is caught at line 111.
Interrupt ==
    /\ pc \notin {"start", "dead"}
    /\ crashes < MaxCrashes
    /\ crashes' = crashes + 1
    /\ Raise("KeyboardInterrupt")
    /\ UNCHANGED << file, status, locals, before, cycleSent, lastList, repeat, sentCount,
                    failedIds, startIds, watch, setup, activity, lost >>

\* A start that creates the state directory before it looks at the settings.
Start_DirFirst ==
    /\ pc = "start"
    /\ dirExists' = TRUE
    /\ activity' = activity \cup {"file"}
    /\ IF config # Settings
       THEN Raise("ValueError")
       ELSE pc' = "fetch" /\ UNCHANGED << raised, exitCode >>
    /\ UNCHANGED << file, status, locals, before, cycleSent, lastList, repeat, sentCount,
                    failedIds, startIds, crashes, watch, config, lost >>

\* The module-level code and the head of __main__: a missing setting raises
\* ValueError (lines 11-19); otherwise the state directory is looked for and
\* created if absent (lines 35-36), the handler is registered and run()
\* begins.
Start ==
    /\ pc = "start"
    /\ IF config # Settings
       THEN /\ Raise("ValueError")
            /\ UNCHANGED << dirExists, activity >>
       ELSE /\ pc' = "fetch"
            /\ dirExists' = TRUE
            /\ activity' = activity \cup {"file"}
            /\ UNCHANGED << raised, exitCode >>
    /\ UNCHANGED << file, status, locals, before, cycleSent, lastList, repeat, sentCount,
                    failedIds, startIds, crashes, watch, config, lost >>

\* The script is started again: nothing but the file is left of the old
\* process.
Restart ==
    /\ pc = "dead"
    /\ pc' = "start"
    /\ raised' = "none"
    /\ exitCode' = -1
    /\ activity' = {}
    /\ lost' = {str(cycleSent[k].item.id) : k \in 1..Len(cycleSent)} \ FileIds(file)
    /\ status' = 200
    /\ notifications' = None
    /\ new_notifications' = <<>>
    /\ idx' = 1
    /\ sent_notifications' = {}
    /\ before' = {}
    /\ cycleSent' = <<>>
    /\ lastList' = None
    /\ repeat' = FALSE
    /\ sentCount' = [i \in IdStrings |-> 0]
    /\ failedIds' = {}
    /\ startIds' = FileIds(file)
    /\ UNCHANGED << file, crashes, watch, setup >>

Next ==
    \/ \E response \in Responses : Fetch(response)
    \/ Select
    \/ \E n \in Items : SendOk(n)
    \/ SendFail
    \/ SaveOpen
    \/ SaveDump
    \/ Sleep
    \/ Crash
    \/ SigTerm
    \/ Interrupt
    \/ Start
    \/ Restart

Spec == Init /\ [][Next]_vars

(***************************************************************************)
(* Progress.  An item whose identifier is not in the persisted notified set *)
(* appears at the source and stays unread from then on.                    *)
(* The event loop takes the steps of a running process, a dead process is  *)
(* started again, and a fetch, and the delivery of each item, succeeds if  *)
(* tried again and again.  No kill is ever certain to happen.              *)
(***************************************************************************)
Appear ==
    /\ pc = "fetch"
    /\ ~watching
    /\ watching' = TRUE
    /\ watched' \in UnreadItems
    /\ str(watched'.id) \notin FileIds(file)
    /\ watchedDelivered' = FALSE
    /\ UNCHANGED << pc, raised, exitCode, file, status, locals, before, cycleSent,
                    lastList, repeat, sentCount, failedIds, startIds, crashes, setup,
                    activity, lost >>

LiveNext ==
    \/ Next
    \/ Appear

Fairness ==
    /\ WF_vars(Select)
    /\ WF_vars(SaveOpen)
    /\ WF_vars(SaveDump)
    /\ WF_vars(Sleep)
    /\ WF_vars(Restart)
    /\ WF_vars(Start)
    /\ SF_vars(FetchOk)
    /\ \A n \in Items : SF_vars(SendOk(n))

LiveSpec == Init /\ [][LiveNext]_vars /\ Fairness

(***************************************************************************)
(* The state store alone: load_notifications and save_notifications over   *)
(* any file a JSON array of strings can be, entries repeated or not.       *)
(***************************************************************************)
StoreIds == {"1", "7", "42", "100"}

StoreFiles ==
    {Missing} \cup {Json(d) : d \in UNION {[1..k -> StoreIds] : k \in 0..(MaxLen + 1)}}

StoreInit == \E f \in StoreFiles : Boot(f)

\* load_notifications() is called and its result handed to
\* save_notifications.
StoreLoad ==
    /\ pc \in {"fetch", "sleep"}
    /\ file.state # "truncated"
    /\ sent_notifications' = load_notifications(file)
    /\ pc' = "save"
    /\ UNCHANGED << raised, exitCode, file, status, notifications, new_notifications,
                    idx, before, cycleSent, lastList, repeat, sentCount, failedIds,
                    startIds, crashes, watch, setup, activity, lost >>

StoreNext ==
    \/ StoreLoad
    \/ SaveOpen
    \/ SaveDump

StoreSpec == StoreInit /\ [][StoreNext]_vars

(***************************************************************************)
(* Properties.                                                             *)
(***************************************************************************)

\* The identifiers of the items of a sequence of sent messages.
SentIds(log) == {str(log[k].item.id) : k \in 1..Len(log)}

\* C1: across the cycles of one process, a message for an identifier is sent
\* at most once, unless a delivery attempt for that identifier failed.
C1_AtMostOncePerIdentifier ==
    \A i \in IdStrings : sentCount[i] <= 1 \/ i \in failedIds

\* C2: a completed cycle that got the list the cycle before it got sends no
\* message and leaves the persisted notified set as it found it.
C2_RepeatedListSendsNothing ==
    (pc = "sleep" /\ repeat) =>
        /\ cycleSent = <<>>
        /\ FileIds(file) = before

\* C3: after a failed delivery the identifier is not in the notified set and
\* the process lives on to attempt it in its following cycle.
C3_FailedDeliveryIsRetried ==
    \A i \in failedIds :
        /\ sentCount[i] = 0 => i \notin sent_notifications
        /\ pc = "dead" => raised = "killed"

\* C4: a cycle in which a delivery failed still attempts every later item
\* and persists the identifiers it delivered.
C4_FailureDoesNotAbortBatch ==
    (failedIds # {} /\ pc \in {"sleep", "dead"} /\ raised # "killed") =>
        /\ idx = Len(new_notifications) + 1
        /\ SentIds(cycleSent) \subseteq FileIds(file)

\* C5: after an answer with a non-success status the cycle works on an empty
\* sequence, sends nothing, and the loop goes on.
C5_FailedFetchIsAnEmptyCycle ==
    status # 200 =>
        /\ pc = "dead" => raised = "killed"
        /\ cycleSent = <<>>
        /\ pc = "sleep" => FileIds(file) = before

\* C2's case: a second cycle completed on the list of a first cycle that
\* delivered two messages.
C2_Witness ==
    /\ pc = "sleep"
    /\ repeat
    /\ \E i, j \in IdStrings : i # j /\ sentCount[i] > 0 /\ sentCount[j] > 0

\* C6: an item that stays unread at the source and whose identifier is not in
\* the persisted notified set is eventually delivered, kills and restarts
\* notwithstanding.
C6_EventuallyDelivered ==
    watching ~> watchedDelivered

\* C7: an identifier that is in the notified set, in memory or in the file,
\* and was not in the file when the process started, is the identifier of an
\* item whose delivery call has returned in this process.
C7_RecordedOnlyAfterDelivery ==
    \A i \in (sent_notifications \cup FileIds(file)) \ startIds : sentCount[i] > 0

\* C7's case: a delivery failed, and an identifier delivered by this process
\* is in the file.
C7_Witness ==
    /\ failedIds # {}
    /\ FileIds(file) \ startIds # {}

\* C8: a completed cycle on list L over persisted set S has sent one message
\* "<title> (<full_name>)" per item of L that is unread and whose str(id) is
\* not in S, in the order of L, and has persisted S and their identifiers.
C8_CycleResult ==
    (pc = "sleep" /\ ~notifications.none) =>
        LET L == notifications.val
            S == before
            E == SelectSeq(L, LAMBDA n : n.has_unread /\ n.unread /\ n.id.text \notin S)
        IN /\ Len(cycleSent) = Len(E)
           /\ \A k \in 1..Len(E) :
                 /\ cycleSent[k].item = E[k]
                 /\ cycleSent[k].text = E[k].title \o " (" \o E[k].full_name \o ")"
           /\ FileIds(file) = S \cup {E[k].id.text : k \in 1..Len(E)}
           /\ (Len(L) = 1 /\ L[1].id = [kind |-> "str", text |-> "42"]
                 /\ L[1].has_unread /\ L[1].unread /\ S = {}) =>
                 /\ [k \in 1..Len(cycleSent) |-> cycleSent[k].text] = <<"Fix bug (org/repo)">>
                 /\ FileIds(file) = {"42"}

\* C8's case: the cycle on the one unread item "42" over an empty set is done.
C8_Witness ==
    /\ pc = "sleep"
    /\ before = {}
    /\ notifications = Some(<<Item([kind |-> "str", text |-> "42"],
                                   [has_unread |-> TRUE, unread |-> TRUE])>>)
    /\ Len(cycleSent) = 1

\* C9: only items that carry the unread flag with value true are candidates:
\* no other item is selected or sent, and no identifier enters the notified
\* set but that of such an item of the list.
C9_ReadFilter ==
    /\ \A k \in 1..Len(new_notifications) :
          new_notifications[k].has_unread /\ new_notifications[k].unread
    /\ \A k \in 1..Len(cycleSent) :
          cycleSent[k].item.has_unread /\ cycleSent[k].item.unread
    /\ ~notifications.none =>
          LET U == {str(n.id) : n \in {m \in Range(notifications.val) :
                                          m.has_unread /\ m.unread}}
          IN /\ sent_notifications \ before \subseteq U
             /\ pc = "sleep" => FileIds(file) \ before \subseteq U

\* C9's case: a cycle is done whose list held a read item and an item without
\* the flag, neither identifier being in the notified set.
C9_Witness ==
    /\ pc = "sleep"
    /\ ~notifications.none
    /\ \E n, m \in Range(notifications.val) :
          /\ n.has_unread /\ ~n.unread /\ str(n.id) \notin before
          /\ ~m.has_unread /\ str(m.id) \notin before

\* C10: after save_notifications(S) has completed, load_notifications gives
\* S again; and saving what load_notifications gave leaves in the file the
\* identifiers that were in it.
C10_StoreRoundTrip ==
    pc = "sleep" =>
        /\ load_notifications(file) = sent_notifications
        /\ FileIds(file) = startIds

\* C10's case: a set of three identifiers has been loaded and saved.
C10_Witness ==
    /\ pc = "sleep"
    /\ Cardinality(sent_notifications) = 3
    /\ Len(file.data) = 3

\* C11: with no state file, load_notifications raises nothing and gives the
\* empty set, so the cycle selects every unread item of the list.
C11_MissingFileIsEmptySet ==
    file.state = "missing" =>
        /\ pc = "dead" =>
              raised \in {"killed", "SystemExit", "KeyboardInterrupt", "ValueError",
                          "TypeError", "DeliveryError"}
        /\ pc \in {"send", "save"} =>
              /\ new_notifications =
                    SelectSeq(notifications.val, LAMBDA n : n.has_unread /\ n.unread)
              /\ sent_notifications = SentIds(cycleSent)

\* C11's case: no state file, and the cycle has selected both unread items
\* of its list.
C11_Witness ==
    /\ file.state = "missing"
    /\ pc = "send"
    /\ Len(new_notifications) = 2

\* C12: at every moment the state file holds a complete set: during a save,
\* the set it held before or the set being saved.
C12_SaveIsAtomic ==
    /\ file.state # "truncated"
    /\ pc = "dump" => FileIds(file) \in {before, sent_notifications}

\* C13: the process ends with status 0 on SIGTERM and on a manual interrupt,
\* with a status other than 0 on any other exception that leaves the poll
\* loop; and once an exception has left a cycle the process is not running.
C13_ExitCodes ==
    /\ raised \in {"SystemExit", "KeyboardInterrupt"} => exitCode = 0
    /\ raised \in {"TypeError", "DeliveryError", "JSONDecodeError"} =>
          exitCode \notin {-1, 0}
    /\ raised # "none" => pc = "dead"

\* C13's case: SIGTERM has ended a process in the middle of its cycle.
C13_Witness ==
    /\ pc = "dead"
    /\ raised = "SystemExit"
    /\ exitCode = 0
    /\ new_notifications # <<>>

\* C14: a process that exits on SIGTERM has persisted the identifier of every
\* item its current cycle delivered.
C14_SignalWaitsForCycle ==
    raised = "SystemExit" => SentIds(cycleSent) \subseteq FileIds(file)

\* C15: with a required setting missing, the process aborts with no file
\* and no network activity behind it.
C15_ValidationBeforeActivity ==
    config # Settings =>
        /\ activity = {}
        /\ pc \in {"start", "dead"}
        /\ pc = "dead" => raised \in {"ValueError", "killed"}
        /\ raised = "ValueError" => exitCode = 1

\* C15's case: the start was aborted, and the state directory, absent
\* before, is absent still.
C15_Witness ==
    /\ raised = "ValueError"
    /\ ~dirExists

\* C16: a cycle never goes on to send or save over a state file it could not
\* parse; the error ends the process, with nothing sent in the cycle and the
\* file as it was.
C16_UnreadableFileIsFatal ==
    /\ pc \in {"send", "save"} => file.state # "truncated"
    /\ raised = "JSONDecodeError" =>
          /\ pc = "dead"
          /\ exitCode = 1
          /\ cycleSent = <<>>
          /\ file = Truncated

\* C16's case: the process has ended on a state file it could not parse.
C16_Witness ==
    /\ raised = "JSONDecodeError"
    /\ file = Truncated
    /\ ~notifications.none
    /\ get_unread_notifications(notifications.val) # <<>>

\* The identifiers of the unread items of the fetched list.
UnreadIds == {str(n.id) : n \in Range(get_unread_notifications(notifications.val))}

\* C17, state part: while the cycle is sending, and until its save begins,
\* the state file is the one the cycle loaded; the completed cycle has written
\* its set; and an identifier delivered by the stopped process but absent
\* from the file is selected again, and delivered again by the time the cycle
\* completes.
C17_FileDuringCycle ==
    /\ pc \in {"send", "save"} =>
          /\ file.state # "truncated"
          /\ FileIds(file) = before
          /\ SentIds(cycleSent) \cap FileIds(file) = {}
    /\ pc = "sleep" => FileIds(file) = before \cup SentIds(cycleSent)
    /\ pc \in {"send", "save", "dump", "sleep"} =>
          (lost \cap UnreadIds) \ before
              \subseteq {str(new_notifications[k].id) : k \in 1..Len(new_notifications)}
    /\ pc = "sleep" => (lost \cap UnreadIds) \ before \subseteq SentIds(cycleSent)

\* C17: the state file is written only by the save that follows the last
\* delivery attempt of a cycle, once, and never between two deliveries; an
\* identifier delivered before a stop and not yet saved is delivered again by
\* the next completed cycle that finds the item unread.
C17_PersistOncePerCycle ==
    /\ []C17_FileDuringCycle
    /\ [][file' # file =>
            \/ pc = "save" /\ pc' = "dump" /\ idx = Len(new_notifications) + 1
            \/ pc = "dump" /\ pc' = "sleep"]_vars

\* C17's case: a cycle after a restart has completed and has delivered again
\* an item the stopped process had delivered and not saved.
C17_Witness ==
    /\ pc = "sleep"
    /\ \E k \in 1..Len(cycleSent) : str(cycleSent[k].item.id) \in lost

\* C18: from its selection on, a cycle holds every identifier that was in
\* the state file when it loaded it, and the file a completed cycle leaves
\* contains them all, and all those the file held when the process started.
C18_NotifiedSetNeverShrinks ==
    /\ pc \in {"send", "save", "dump", "sleep"} => before \subseteq sent_notifications
    /\ pc = "sleep" =>
          /\ file.state = "json"
          /\ before \subseteq FileIds(file)
          /\ startIds \subseteq FileIds(file)

\* C18's case: a cycle that loaded a set with members has delivered a new
\* item and completed.
C18_Witness ==
    /\ pc = "sleep"
    /\ before # {}
    /\ cycleSent # <<>>

\* The set a process that loaded the state file once, at its start, and added
\* each delivered identifier to it, would hold now.
Held == startIds \cup {i \in IdStrings : sentCount[i] > 0}

\* C19: the set each cycle reads from the file and adds its deliveries to is
\* the set held by a process that loaded the file once at its start, and the
\* file each completed cycle leaves is that set, so the two select and send
\* the same items and persist the same sets.
C19_LoadOnceEquivalent ==
    /\ pc \in {"send", "save", "dump", "sleep"} =>
          /\ sent_notifications = Held
          /\ before \cup SentIds(cycleSent) = Held
    /\ pc = "sleep" => FileIds(file) = Held

\* C19's case: a later cycle of a process, whose reload returns more than the
\* file held at the start, is about to send.
C19_Witness ==
    /\ pc = "send"
    /\ before # startIds
    /\ sent_notifications # before

\* C20: within one cycle no identifier is delivered twice.
C20_OncePerCycle ==
    \A i \in IdStrings :
        Cardinality({k \in 1..Len(cycleSent) : str(cycleSent[k].item.id) = i}) <= 1

====
